---- MODULE Spec2Model ----
(***************************************************************************)
(* Page-object layer of Python_Pytest: LoginPage (PageObject/login.py) and *)
(* its base class BrowserUtils (utils/browserUtils.py).                    *)
(*                                                                         *)
(* Python strings that the code transforms (CSS property names, labels)    *)
(* are sequences of one-character strings, so that str.replace and         *)
(* str.title are computed character by character.  Strings the code only   *)
(* passes along (titles, CSS values, user names) are opaque TLA+ strings.  *)
(* The driver and the element are external collaborators: every call into *)
(* them either returns or raises an Exception, chosen nondeterministically.*)
(***************************************************************************)
EXTENDS Integers, Sequences, FiniteSets, TLC

\* Longest explicitly supplied property list the model enumerates.
MaxLen == 2

---------------------------------------------------------------------------
(* Characters *)

LowerChars == <<"a","b","c","d","e","f","g","h","i","j","k","l","m","n","o","p","q","r","s","t","u","v","w","x","y","z">>
UpperChars == <<"A","B","C","D","E","F","G","H","I","J","K","L","M","N","O","P","Q","R","S","T","U","V","W","X","Y","Z">>

IndexIn(c, alphabet) == CHOOSE i \in 1..Len(alphabet) : alphabet[i] = c

IsLower(c) == \E i \in 1..Len(LowerChars) : LowerChars[i] = c
IsUpper(c) == \E i \in 1..Len(UpperChars) : UpperChars[i] = c
\* str.title's notion of a cased character (a letter, for ASCII).
IsCased(c) == IsLower(c) \/ IsUpper(c)

ToUpper(c) == IF IsLower(c) THEN UpperChars[IndexIn(c, LowerChars)] ELSE c
ToLower(c) == IF IsUpper(c) THEN LowerChars[IndexIn(c, UpperChars)] ELSE c

---------------------------------------------------------------------------
(* The string operations of the label expression, browserUtils.py line 23 *)

\* prop.replace("-", " ")
ReplaceHyphens(s) == [i \in 1..Len(s) |-> IF s[i] = "-" THEN " " ELSE s[i]]

\* str.title(): one left-to-right pass that remembers whether the previous
\* character was cased; a character after a cased one is lowercased, any
\* other character is uppercased.
RECURSIVE TitleFrom(_, _, _, _)
TitleFrom(s, i, previousIsCased, acc) ==
    IF i > Len(s) THEN acc
    ELSE TitleFrom(s, i + 1, IsCased(s[i]),
                   Append(acc, IF previousIsCased THEN ToLower(s[i]) ELSE ToUpper(s[i])))

Title(s) == TitleFrom(s, 1, FALSE, <<>>)

\* A variant that uppercases the first character only (str.capitalize).
CapitalizeOnly(s) ==
    [i \in 1..Len(s) |-> IF i = 1 THEN ToUpper(s[i]) ELSE ToLower(s[i])]

LabelCapitalized(prop, lm) ==
    IF ~lm.isNone /\ DOMAIN lm.dict # {} /\ prop \in DOMAIN lm.dict
    THEN lm.dict[prop]
    ELSE CapitalizeOnly(ReplaceHyphens(prop))

\* label = label_map.get(prop) if label_map and prop in label_map
\*         else prop.replace("-", " ").title()
Label(prop, lm) ==
    IF ~lm.isNone /\ DOMAIN lm.dict # {} /\ prop \in DOMAIN lm.dict
    THEN lm.dict[prop]
    ELSE Title(ReplaceHyphens(prop))

---------------------------------------------------------------------------
(* Inputs *)

BackgroundColor == <<"b","a","c","k","g","r","o","u","n","d","-","c","o","l","o","r">>
Color == <<"c","o","l","o","r">>
FontSize == <<"f","o","n","t","-","s","i","z","e">>
WebkitBox == <<"-","w","e","b","k","i","t","-","B","O","X">>
H1x == <<"h","1","x">>

\* Property names of explicitly supplied lists: one of the defaults, a
\* vendor-prefixed name with capitals, and a name with a digit inside a word.
\* (background-color and font-size come in through the default list.)
PropNames == {Color, WebkitBox, H1x}

TextColor == <<"T","e","x","t"," ","C","o","l","o","r">>

\* The properties argument: None, or a list (repeats allowed).
NoneList == [isNone |-> TRUE, list |-> <<>>]
SomeList(l) == [isNone |-> FALSE, list |-> l]
PropLists == UNION {[1..n -> PropNames] : n \in 0..MaxLen}
PropertiesArgs == {NoneList} \cup {SomeList(l) : l \in PropLists}

\* The label_map argument: None, or a dict.
EmptyDict == [n \in {} |-> <<>>]
NoneDict == [isNone |-> TRUE, dict |-> EmptyDict]
SomeDict(d) == [isNone |-> FALSE, dict |-> d]
LabelMapArgs ==
    { NoneDict,
      SomeDict(EmptyDict),
      SomeDict([n \in {Color} |-> TextColor]),
      SomeDict([n \in {Color, WebkitBox} |-> IF n = Color THEN TextColor ELSE <<>>]) }

Drivers == {"d1", "d2"}
Titles == {"Login", "Shop"}
Usernames == {"alice", ""}
Passwords == {"secret", ""}
CssValues == {"16px", "None"}
Exceptions == {"NoSuchElementException"}

\* What one call into the driver or the element does: return, or raise.
Returned(v) == [ok |-> TRUE, val |-> v, exc |-> ""]
Raised(e) == [ok |-> FALSE, val |-> "", exc |-> e]
ReadOutcomes == {Returned(v) : v \in CssValues} \cup {Raised(e) : e \in Exceptions}
CallOutcomes == {Returned("")} \cup {Raised(e) : e \in Exceptions}

---------------------------------------------------------------------------
(* Values the code builds *)

\* Python's None as an emitted value, and a value the element returned.
NoneValue == [isNone |-> TRUE, val |-> ""]
StrValue(v) == [isNone |-> FALSE, val |-> v]

\* try: value = element.value_of_css_property(prop)
\* except Exception: value = None
ValueOf(outcome) == IF outcome.ok THEN StrValue(outcome.val) ELSE NoneValue

\* A variant that tests the list's truth value instead of "is None".
DefaultWhenFalsy(arg) ==
    IF arg.isNone \/ arg.list = <<>> THEN <<BackgroundColor, Color, FontSize>> ELSE arg.list

\* A variant whose default list is written in another order.
DefaultReordered(arg) ==
    IF arg.isNone THEN <<Color, BackgroundColor, FontSize>> ELSE arg.list

\* if properties is None: properties = ["background-color", "color", "font-size"]
PropertiesOrDefault(arg) ==
    IF arg.isNone THEN <<BackgroundColor, Color, FontSize>> ELSE arg.list

\* By.ID
ById == "id"

\* A variant with the submit locator mistyped.
LoginPageWrongSubmit(driver) ==
    [driver |-> driver,
     username |-> <<ById, "username">>,
     password |-> <<ById, "password">>,
     submit |-> <<ById, "signInBtn ">>]

\* LoginPage.__init__ (with BrowserUtils.__init__): the object's fields.
LoginPage(driver) ==
    [driver |-> driver,
     username |-> <<ById, "username">>,
     password |-> <<ById, "password">>,
     submit |-> <<ById, "signInBtn">>]

\* ShopPage(self.driver): a shop-page object holding the driver it is given.
ShopPage(driver) == [class |-> "ShopPage", driver |-> driver]

DriverCall(driver, op, locator, arg) ==
    [driver |-> driver, op |-> op, locator |-> locator, arg |-> arg]

\* A variant that sends the password to the username field and vice versa.
LoginCallsSwapped(self, username, password) ==
    << DriverCall(self.driver, "find_element", self.username, ""),
       DriverCall(self.driver, "send_keys", self.username, password),
       DriverCall(self.driver, "find_element", self.password, ""),
       DriverCall(self.driver, "send_keys", self.password, username),
       DriverCall(self.driver, "find_element", self.submit, ""),
       DriverCall(self.driver, "click", self.submit, "") >>

\* The driver calls of login's three statements, in evaluation order; an
\* element is named by the locator it was found with.
LoginCalls(self, username, password) ==
    << DriverCall(self.driver, "find_element", self.username, ""),
       DriverCall(self.driver, "send_keys", self.username, username),
       DriverCall(self.driver, "find_element", self.password, ""),
       DriverCall(self.driver, "send_keys", self.password, password),
       DriverCall(self.driver, "find_element", self.submit, ""),
       DriverCall(self.driver, "click", self.submit, "") >>

\* A variant that answers with an empty title.
getPageTitleBlank(self, driverTitle) == ""

\* return self.driver.title
getPageTitle(self, driverTitle) == driverTitle[self.driver]

\* What a call handed back to its caller.
Pending(op) == [op |-> op, kind |-> "pending", val |-> "", driver |-> "", exc |-> ""]
ReturnNone(op) == [op |-> op, kind |-> "None", val |-> "", driver |-> "", exc |-> ""]
ReturnStr(op, v) == [op |-> op, kind |-> "str", val |-> v, driver |-> "", exc |-> ""]
ReturnObject(op, obj) ==
    [op |-> op, kind |-> obj.class, val |-> "", driver |-> obj.driver, exc |-> ""]
Raise(op, e) == [op |-> op, kind |-> "raise", val |-> "", driver |-> "", exc |-> e]

---------------------------------------------------------------------------
(* State *)

VARIABLES
    pc,             \* "idle", or the method the single test flow is inside
    handle,         \* the driver handle the constructor was given
    page,           \* the LoginPage object's fields
    title,          \* each driver's current title
    ret,            \* what the current or last call handed back
    args,           \* login's arguments
    lpos,           \* login: index of the next driver call
    calls,          \* login: the driver calls made, each with its outcome
    argProperties,  \* print_css_properties: properties as passed
    label_map,      \* print_css_properties: label_map as passed
    properties,     \* print_css_properties: properties after lines 20-21
    idx,            \* print_css_properties: position of the for loop
    reads,          \* print_css_properties: value_of_css_property calls made
    out,            \* print_css_properties: the lines printed
    defaultUsed     \* an earlier print_css_properties call ran on the default list

vars == <<pc, handle, page, title, ret, args, lpos, calls,
          argProperties, label_map, properties, idx, reads, out, defaultUsed>>

loginVars == <<args, lpos, calls>>
printVars == <<argProperties, label_map, properties, idx, reads, out>>

NoArgs == [username |-> "", password |-> ""]

\* The per-call records of the other methods are cleared when a call starts.
ClearLogin == args' = NoArgs /\ lpos' = 1 /\ calls' = <<>>
ClearPrint ==
    /\ argProperties' = NoneList /\ label_map' = NoneDict
    /\ properties' = <<>> /\ idx' = 1 /\ reads' = <<>> /\ out' = <<>>

\* A page object freshly constructed on driver "d1"; "d2" is another browser
\* session of the same test run.
Init ==
    /\ pc = "idle"
    /\ handle = "d1"
    /\ page = LoginPage(handle)
    /\ title \in [Drivers -> Titles]
    /\ ret = Pending("")
    /\ args = NoArgs /\ lpos = 1 /\ calls = <<>>
    /\ argProperties = NoneList /\ label_map = NoneDict
    /\ properties = <<>> /\ idx = 1 /\ reads = <<>> /\ out = <<>>
    /\ defaultUsed = FALSE

---------------------------------------------------------------------------
(* BrowserUtils.getPageTitle *)

\* Reading driver.title either yields the driver's title or raises.
GetPageTitle ==
    /\ pc = "idle"
    /\ \E o \in CallOutcomes :
         ret' = IF o.ok THEN ReturnStr("getPageTitle", getPageTitle(page, title))
                ELSE Raise("getPageTitle", o.exc)
    /\ ClearLogin /\ ClearPrint
    /\ UNCHANGED <<pc, handle, page, title, defaultUsed>>

\* The browser behind a driver moves to another document (a click, a
\* redirect, a script): the driver's title changes.
Navigate ==
    /\ \E d \in Drivers, t \in Titles :
         /\ title[d] # t
         /\ title' = [title EXCEPT ![d] = t]
    /\ UNCHANGED <<pc, handle, page, ret, defaultUsed>>
    /\ UNCHANGED loginVars /\ UNCHANGED printVars

---------------------------------------------------------------------------
(* LoginPage.login *)

LoginStart ==
    /\ pc = "idle"
    /\ \E u \in Usernames, p \in Passwords : args' = [username |-> u, password |-> p]
    /\ pc' = "login"
    /\ lpos' = 1 /\ calls' = <<>>
    /\ ret' = Pending("login")
    /\ ClearPrint
    /\ UNCHANGED <<handle, page, title, defaultUsed>>

Logged(call, o) ==
    [driver |-> call.driver, op |-> call.op, locator |-> call.locator,
     arg |-> call.arg, ok |-> o.ok, exc |-> o.exc]

\* A variant that catches a failing driver call and carries on.
LoginStepSwallow ==
    /\ pc = "login"
    /\ lpos <= Len(LoginCalls(page, args.username, args.password))
    /\ \E o \in CallOutcomes :
         calls' = Append(calls, Logged(LoginCalls(page, args.username, args.password)[lpos], o))
    /\ lpos' = lpos + 1
    /\ UNCHANGED <<pc, ret, handle, page, title, args, defaultUsed>>
    /\ UNCHANGED printVars

\* The next driver call of lines 18-20.  When it raises, nothing in login
\* catches it: the call ends there and the exception reaches the caller.
LoginStep ==
    /\ pc = "login"
    /\ lpos <= Len(LoginCalls(page, args.username, args.password))
    /\ \E o \in CallOutcomes :
         /\ calls' = Append(calls, Logged(LoginCalls(page, args.username, args.password)[lpos], o))
         /\ IF o.ok
            THEN /\ lpos' = lpos + 1
                 /\ UNCHANGED <<pc, ret>>
            ELSE /\ pc' = "idle"
                 /\ ret' = Raise("login", o.exc)
                 /\ UNCHANGED lpos
    /\ UNCHANGED <<handle, page, title, args, defaultUsed>>
    /\ UNCHANGED printVars

\* shop_page = ShopPage(self.driver); return shop_page
LoginReturn ==
    /\ pc = "login"
    /\ lpos > Len(LoginCalls(page, args.username, args.password))
    /\ ret' = ReturnObject("login", ShopPage(page.driver))
    /\ pc' = "idle"
    /\ UNCHANGED <<handle, page, title, defaultUsed>>
    /\ UNCHANGED loginVars /\ UNCHANGED printVars

---------------------------------------------------------------------------
(* BrowserUtils.print_css_properties *)

PrintStart ==
    /\ pc = "idle"
    /\ \E a \in PropertiesArgs, m \in LabelMapArgs :
         /\ argProperties' = a
         /\ label_map' = m
         /\ properties' = PropertiesOrDefault(a)
    /\ pc' = "print"
    /\ idx' = 1 /\ reads' = <<>> /\ out' = <<>>
    /\ ret' = Pending("print_css_properties")
    /\ ClearLogin
    /\ UNCHANGED <<handle, page, title, defaultUsed>>

Read(prop, o) == [prop |-> prop, ok |-> o.ok, val |-> o.val, exc |-> o.exc]
Line(label, value) == [label |-> label, value |-> value]

\* A variant that prints a line at the front of what was printed so far.
PrintStepPrepend ==
    /\ pc = "print"
    /\ idx <= Len(properties)
    /\ \E o \in ReadOutcomes :
         /\ reads' = Append(reads, Read(properties[idx], o))
         /\ out' = <<Line(Label(properties[idx], label_map), ValueOf(o))>> \o out
    /\ idx' = idx + 1
    /\ UNCHANGED <<pc, ret, handle, page, title, argProperties, label_map, properties, defaultUsed>>
    /\ UNCHANGED loginVars

\* A variant without the try/except: a failing read ends the call.
PrintStepPropagate ==
    /\ pc = "print"
    /\ idx <= Len(properties)
    /\ \E o \in ReadOutcomes :
         /\ reads' = Append(reads, Read(properties[idx], o))
         /\ IF o.ok
            THEN /\ out' = Append(out, Line(Label(properties[idx], label_map), ValueOf(o)))
                 /\ idx' = idx + 1
                 /\ UNCHANGED <<pc, ret>>
            ELSE /\ pc' = "idle"
                 /\ ret' = Raise("print_css_properties", o.exc)
                 /\ UNCHANGED <<out, idx>>
    /\ UNCHANGED <<handle, page, title, argProperties, label_map, properties, defaultUsed>>
    /\ UNCHANGED loginVars

\* A variant that reads a second time when the first read raises.
PrintStepRetry ==
    /\ pc = "print"
    /\ idx <= Len(properties)
    /\ \E o \in ReadOutcomes :
         IF o.ok
         THEN /\ reads' = Append(reads, Read(properties[idx], o))
              /\ out' = Append(out, Line(Label(properties[idx], label_map), ValueOf(o)))
         ELSE \E o2 \in ReadOutcomes :
              /\ reads' = Append(Append(reads, Read(properties[idx], o)), Read(properties[idx], o2))
              /\ out' = Append(out, Line(Label(properties[idx], label_map), ValueOf(o2)))
    /\ idx' = idx + 1
    /\ UNCHANGED <<pc, ret, handle, page, title, argProperties, label_map, properties, defaultUsed>>
    /\ UNCHANGED loginVars

\* One iteration of the for loop, lines 22-28: the label, one read of the
\* element (which returns or raises), and the print.
PrintStep ==
    /\ pc = "print"
    /\ idx <= Len(properties)
    /\ \E o \in ReadOutcomes :
         /\ reads' = Append(reads, Read(properties[idx], o))
         /\ out' = Append(out, Line(Label(properties[idx], label_map), ValueOf(o)))
    /\ idx' = idx + 1
    /\ UNCHANGED <<pc, ret, handle, page, title, argProperties, label_map, properties, defaultUsed>>
    /\ UNCHANGED loginVars

\* The loop is exhausted: the method returns None.
PrintReturn ==
    /\ pc = "print"
    /\ idx > Len(properties)
    /\ ret' = ReturnNone("print_css_properties")
    /\ pc' = "idle"
    /\ defaultUsed' = (defaultUsed \/ argProperties.isNone)
    /\ UNCHANGED <<handle, page, title>>
    /\ UNCHANGED loginVars /\ UNCHANGED printVars

---------------------------------------------------------------------------

Next ==
    \/ GetPageTitle
    \/ Navigate
    \/ LoginStart
    \/ LoginStep
    \/ LoginReturn
    \/ PrintStart
    \/ PrintStep
    \/ PrintReturn

Spec == Init /\ [][Next]_vars

---------------------------------------------------------------------------
(* Properties *)

PrintReturned == ret.op = "print_css_properties" /\ ret.kind = "None"
InPrint == ret.op = "print_css_properties"

\* The property list a call works on, as its caller sees it: the list that
\* was passed, or the list the method put in its place when none was passed.
CallerList == IF argProperties.isNone THEN properties ELSE argProperties.list

\* C1: when print_css_properties returns, it has printed exactly Len(P)
\* lines, and the i-th line belongs to the i-th property of P: it carries
\* that property's label and follows the read of that property.  This holds
\* for lists with repeated names, for every label map and for every pattern
\* of failing and succeeding reads.
C1_OneLinePerPropertyInOrder ==
    PrintReturned =>
        /\ Len(out) = Len(CallerList)
        /\ \A i \in 1..Len(CallerList) :
             /\ i <= Len(reads) /\ reads[i].prop = CallerList[i]
             /\ i <= Len(out) /\ out[i].label = Label(CallerList[i], label_map)

C1_Witness ==
    /\ PrintReturned
    /\ ~argProperties.isNone /\ ~label_map.isNone
    /\ argProperties.list = <<WebkitBox, Color, WebkitBox>> \/ argProperties.list = <<Color, H1x, Color>>
       \/ argProperties.list = <<Color, Color>>
    /\ Len(out) = Len(argProperties.list)
    /\ reads[1].ok /\ ~reads[2].ok

\* The label the text prescribes for a property without a mapped label:
\* same length as the name; a hyphen becomes a space; within each word (a
\* maximal run of letters) the first letter is uppercase and the others are
\* lowercase; every other character is kept.
IsDerivedLabel(label, prop) ==
    /\ Len(label) = Len(prop)
    /\ \A j \in 1..Len(prop) :
         label[j] = IF prop[j] = "-" THEN " "
                    ELSE IF ~IsCased(prop[j]) THEN prop[j]
                    ELSE IF j = 1 \/ ~IsCased(prop[j - 1]) THEN ToUpper(prop[j])
                    ELSE ToLower(prop[j])

\* C2: every printed label is M[property] when the label map M holds the
\* property, and otherwise (property not in M, or no M) the property name
\* with hyphens replaced by spaces and each word title-cased;
\* "background-color" gives "Background Color", "font-size" gives
\* "Font Size", and "color" under {"color": "Text Color"} gives "Text Color".
C2_LabelMappedOrDerived ==
    InPrint =>
        \A i \in 1..Len(out) :
            /\ i <= Len(properties)
            /\ IF ~label_map.isNone /\ properties[i] \in DOMAIN label_map.dict
               THEN out[i].label = label_map.dict[properties[i]]
               ELSE IsDerivedLabel(out[i].label, properties[i])
            /\ (properties[i] = BackgroundColor /\ BackgroundColor \notin DOMAIN label_map.dict)
                 => out[i].label = <<"B","a","c","k","g","r","o","u","n","d"," ","C","o","l","o","r">>
            /\ (properties[i] = FontSize /\ FontSize \notin DOMAIN label_map.dict)
                 => out[i].label = <<"F","o","n","t"," ","S","i","z","e">>
            /\ (properties[i] = Color /\ label_map = SomeDict([n \in {Color} |-> TextColor]))
                 => out[i].label = <<"T","e","x","t"," ","C","o","l","o","r">>

C2_Witness ==
    /\ PrintReturned
    /\ argProperties.isNone
    /\ label_map = SomeDict([n \in {Color} |-> TextColor])
    /\ Len(out) = 3
    /\ out[1].label = <<"B","a","c","k","g","r","o","u","n","d"," ","C","o","l","o","r">>
    /\ out[2].label = <<"T","e","x","t"," ","C","o","l","o","r">>
    /\ out[3].label = <<"F","o","n","t"," ","S","i","z","e">>

\* C3: a read that raises is printed with the value None, the exception
\* never reaches the caller of print_css_properties, and the call ends only
\* after every property of the list was read and printed, whichever reads
\* raised.
C3_FailedReadPrintsNoneAndLoopGoesOn ==
    InPrint =>
        /\ ret.kind # "raise"
        /\ \A i \in 1..Len(reads) :
             ~reads[i].ok => (i <= Len(out) /\ out[i].value = NoneValue)
        /\ pc = "idle" =>
             /\ ret.kind = "None"
             /\ Len(reads) = Len(CallerList)
             /\ Len(out) = Len(reads)

C3_Witness ==
    /\ PrintReturned
    /\ Len(reads) = 3 /\ Len(out) = 3
    /\ ~reads[1].ok /\ reads[2].ok /\ ~reads[3].ok
    /\ out[1].value = NoneValue /\ out[2].value = StrValue("16px") /\ out[3].value = NoneValue

\* C4: a call without a property list reads and prints exactly
\* "background-color", "color", "font-size", in that order, also when an
\* earlier call already ran on the default list.
C4_DefaultListIsFixed ==
    (InPrint /\ argProperties.isNone) =>
        /\ properties = << <<"b","a","c","k","g","r","o","u","n","d","-","c","o","l","o","r">>,
                           <<"c","o","l","o","r">>,
                           <<"f","o","n","t","-","s","i","z","e">> >>
        /\ \A i \in 1..Len(reads) : i <= Len(properties) /\ reads[i].prop = properties[i]
        /\ PrintReturned => (Len(reads) = 3 /\ Len(out) = 3)

C4_Witness ==
    /\ PrintReturned
    /\ argProperties.isNone
    /\ defaultUsed
    /\ Len(reads) = 3
    /\ reads[1].prop = BackgroundColor /\ reads[2].prop = Color /\ reads[3].prop = FontSize

\* The driver calls the text prescribes for login(username, password) on the
\* driver the page was constructed with, all succeeding.
ExpectedLoginCalls ==
    << [driver |-> handle, op |-> "find_element", locator |-> <<"id", "username">>, arg |-> "", ok |-> TRUE, exc |-> ""],
       [driver |-> handle, op |-> "send_keys", locator |-> <<"id", "username">>, arg |-> args.username, ok |-> TRUE, exc |-> ""],
       [driver |-> handle, op |-> "find_element", locator |-> <<"id", "password">>, arg |-> "", ok |-> TRUE, exc |-> ""],
       [driver |-> handle, op |-> "send_keys", locator |-> <<"id", "password">>, arg |-> args.password, ok |-> TRUE, exc |-> ""],
       [driver |-> handle, op |-> "find_element", locator |-> <<"id", "signInBtn">>, arg |-> "", ok |-> TRUE, exc |-> ""],
       [driver |-> handle, op |-> "click", locator |-> <<"id", "signInBtn">>, arg |-> "", ok |-> TRUE, exc |-> ""] >>

\* C5: when login returns, it has made exactly these driver calls, in this
\* order: find the username element and send it username, find the password
\* element and send it password, find the submit element and click it; and
\* what it returns is a shop page bound to the login page's driver handle.
C5_LoginCallSequence ==
    (ret.op = "login" /\ ret.kind # "pending" /\ ret.kind # "raise") =>
        /\ calls = ExpectedLoginCalls
        /\ ret.kind = "ShopPage"
        /\ ret.driver = handle

C5_Witness ==
    /\ ret.op = "login" /\ ret.kind = "ShopPage"
    /\ args = [username |-> "alice", password |-> "secret"]
    /\ Len(calls) = 6
    /\ calls[2].arg = "alice" /\ calls[4].arg = "secret" /\ calls[6].op = "click"

\* C6: a failing driver call of login is the last driver call login makes
\* and its exception is what the caller gets; the calls made are a prefix of
\* the prescribed sequence (no retry), the submit control is clicked only
\* after both texts were sent, and a call that raised returns no shop page.
C6_LoginFailurePropagates ==
    /\ Len(calls) <= Len(ExpectedLoginCalls)
    /\ \A i \in 1..Len(calls) :
         /\ i <= Len(ExpectedLoginCalls)
         /\ calls[i].op = ExpectedLoginCalls[i].op
         /\ calls[i].locator = ExpectedLoginCalls[i].locator
         /\ calls[i].arg = ExpectedLoginCalls[i].arg
         /\ ~calls[i].ok =>
              /\ i = Len(calls)
              /\ pc = "idle"
              /\ ret = Raise("login", calls[i].exc)
         /\ calls[i].op = "click" =>
              \E j, k \in 1..(i - 1) :
                  /\ j < k
                  /\ calls[j].op = "send_keys" /\ calls[j].ok /\ calls[j].locator = <<"id", "username">>
                  /\ calls[k].op = "send_keys" /\ calls[k].ok /\ calls[k].locator = <<"id", "password">>
    /\ (ret.op = "login" /\ ret.kind = "raise") =>
         (calls # <<>> /\ ~calls[Len(calls)].ok /\ ret.driver = "")
    /\ (ret.op = "login" /\ ret.kind = "ShopPage") =>
         \A i \in 1..Len(calls) : calls[i].ok

C6_Witness ==
    /\ ret = Raise("login", "NoSuchElementException")
    /\ pc = "idle"
    /\ Len(calls) = 4
    /\ calls[2].ok /\ ~calls[4].ok /\ calls[4].op = "send_keys"

\* C7: every getPageTitle call that returns, returns the title that the
\* driver the page was constructed with has at that moment, whatever calls
\* and title changes came before.
C7_TitleIsDriversCurrentTitle ==
    [][GetPageTitle => (ret'.kind = "str" => ret'.val = title[handle])]_vars

C7_Witness ==
    /\ ret.op = "getPageTitle" /\ ret.kind = "str"
    /\ ret.val = "Shop" /\ title[handle] = "Shop"
    /\ \E d \in Drivers : d # handle /\ title[d] = "Login"
    /\ defaultUsed

\* C8: the element is read exactly once per entry of the list, in list
\* order, whether the read returns or raises, and each printed value is what
\* that one read gave: its value, or None when it raised.
C8_OneReadPerEntry ==
    InPrint =>
        /\ Len(reads) = idx - 1
        /\ Len(out) = Len(reads)
        /\ Len(reads) <= Len(properties)
        /\ \A i \in 1..Len(reads) :
             /\ i <= Len(properties) /\ reads[i].prop = properties[i]
             /\ i <= Len(out)
             /\ out[i].value = IF reads[i].ok THEN [isNone |-> FALSE, val |-> reads[i].val]
                               ELSE [isNone |-> TRUE, val |-> ""]
        /\ PrintReturned => Len(reads) = Len(properties)

C8_Witness ==
    /\ PrintReturned
    /\ properties = <<Color, Color>>
    /\ Len(reads) = 2
    /\ ~reads[1].ok /\ reads[2].ok /\ reads[2].val = "None"
    /\ out[1].value = NoneValue /\ out[2].value = StrValue("None")

\* C9: in every state, whatever calls returned or raised before, the login
\* page's locators are (id, "username"), (id, "password"), (id, "signInBtn")
\* and its driver is the handle its constructor was given.
C9_LocatorsAndDriverFixed ==
    /\ page.username = <<"id", "username">>
    /\ page.password = <<"id", "password">>
    /\ page.submit = <<"id", "signInBtn">>
    /\ page.driver = handle

C9_Witness ==
    /\ ret.op = "login" /\ ret.kind = "raise"
    /\ defaultUsed
    /\ Len(calls) = 6 /\ ~calls[6].ok
    /\ page = [driver |-> handle, username |-> <<"id", "username">>,
               password |-> <<"id", "password">>, submit |-> <<"id", "signInBtn">>]

\* C10: the default list stands in only for an absent list: a list that was
\* passed is the list worked on, and a passed empty list gives no read and
\* no line; a passed empty label map gives every line the label that an
\* absent label map gives.
C10_EmptyIsNotAbsent ==
    InPrint =>
        /\ ~argProperties.isNone => properties = argProperties.list
        /\ (~argProperties.isNone /\ argProperties.list = <<>>) =>
             (reads = <<>> /\ out = <<>> /\ idx = 1)
        /\ label_map = SomeDict(EmptyDict) =>
             \A i \in 1..Len(out) :
                 i <= Len(properties) /\ out[i].label = Label(properties[i], NoneDict)

C10_Witness ==
    /\ PrintReturned
    /\ argProperties = SomeList(<<>>)
    /\ label_map = SomeDict(EmptyDict)
    /\ reads = <<>> /\ out = <<>>

====
